---------------------------- MODULE Spec2Model ----------------------------
(***************************************************************************)
(* A model of Alma.py: the Streamlit page ALMA_System, its entities        *)
(* (QuantumEntity) and its RerunManager.                                   *)
(*                                                                         *)
(* Streamlit runs the whole script once per "pass": on the first load, on  *)
(* every widget event (one button or form submit per pass) and after every *)
(* st.rerun().  Each pass constructs a new ALMA_System (line 810), hence a *)
(* new RerunManager and a new pending_operations list; only                *)
(* st.session_state survives from pass to pass.                            *)
(*                                                                         *)
(* Text is modelled as a sequence of one-character strings, so that        *)
(* strip(), splitlines(), startswith() and "in" are computed, not assumed. *)
(* Left out: the entity's random position, created_at and connections, the *)
(* timestamps of chat records, ia_connections, and everything that is only *)
(* drawn (titles, markdown, the plot).                                     *)
(***************************************************************************)
EXTENDS Integers, Sequences, FiniteSets, TLC

VARIABLES
    ss,                  \* st.session_state: a dictionary, key -> value
    rm,                  \* the RerunManager (self.rerun_manager, or the one under test)
    pending_operations,  \* self.pending_operations: ids whose pop() is queued
    pc,                  \* where the running script is; "idle" between passes
    click,               \* the widget event of this pass: "none", "pending", "taken"
    rerun,               \* st.rerun() was raised: the next pass is a rerun pass
    event,               \* the widget event last delivered, with its inputs
    flushLog,            \* what the last execute_pending_rerun() called, in order
    rerunReturns,        \* whether st.rerun() returns to its caller (bare mode) or raises
    last,                \* RerunManager under test: the last call, its argument, rm before it
    nextId,              \* entities created so far + 1 (stands for uuid4)
    interactCalls,       \* per entity in the registry: interact() calls so far, saturating
    procs,               \* the subprocesses launched and still running
    nextProc,            \* subprocesses launched so far + 1
    operated             \* the widgets the user of this session operates

vars == <<ss, rm, pending_operations, pc, click, rerun, event, flushLog,
          rerunReturns, last, nextId, interactCalls, procs, nextProc, operated>>

-----------------------------------------------------------------------------
(* Bounds of the exploration *)

MaxEntities == 2     \* entities created in one session
MaxCallbacks == 2    \* callbacks registered per list of a RerunManager
MaxCount == 11       \* interactCalls saturates here
MaxProcs == 2        \* subprocesses launched in one session
MaxChat == 2         \* chat records in one session
MaxQueue == 3        \* removals in a queue handed to process_pending_operations

-----------------------------------------------------------------------------
(* Python values *)

None == <<>>
Some(x) == <<x>>
Truthy(opt) == opt # <<>>

Max(a, b) == IF a >= b THEN a ELSE b

EmptyDict == [k \in {} |-> TRUE]
Put(d, k, v) == [x \in DOMAIN d \cup {k} |-> IF x = k THEN v ELSE d[x]]
Del(d, k) == [x \in DOMAIN d \ {k} |-> d[x]]
\* dict.pop(k, None)
Pop(d, k) == Del(d, k)
\* session_state.get(k)
Get(d, k) == IF k \in DOMAIN d THEN d[k] ELSE None

-----------------------------------------------------------------------------
(* Text *)

Whitespace == {" ", "\n", "\r", "\t"}
LineBreaks == {"\n", "\r"}

RECURSIVE LStrip(_)
LStrip(s) == IF s # <<>> /\ Head(s) \in Whitespace THEN LStrip(Tail(s)) ELSE s

RECURSIVE RStrip(_)
RStrip(s) ==
    IF s # <<>> /\ s[Len(s)] \in Whitespace THEN RStrip(SubSeq(s, 1, Len(s) - 1)) ELSE s

\* str.strip()
Strip(s) == RStrip(LStrip(s))

\* prefix in s / s.startswith(prefix)
StartsWith(s, prefix) ==
    /\ Len(prefix) <= Len(s)
    /\ SubSeq(s, 1, Len(prefix)) = prefix

\* sub in s
Contains(s, sub) ==
    \E i \in 1..(Len(s) + 1) :
        /\ i + Len(sub) - 1 <= Len(s)
        /\ SubSeq(s, i, i + Len(sub) - 1) = sub

\* the index of the first line break of s, 0 when there is none
FirstBreak(s) ==
    IF \E i \in 1..Len(s) : s[i] \in LineBreaks
    THEN CHOOSE i \in 1..Len(s) :
            /\ s[i] \in LineBreaks
            /\ \A j \in 1..(i - 1) : s[j] \notin LineBreaks
    ELSE 0

\* str.splitlines(): "\r\n" is one break, a final break opens no empty line
RECURSIVE SplitLines(_)
SplitLines(s) ==
    IF s = <<>> THEN <<>>
    ELSE LET i == FirstBreak(s) IN
         IF i = 0 THEN <<s>>
         ELSE LET crlf == i < Len(s) /\ s[i] = "\r" /\ s[i + 1] = "\n"
                  rest == SubSeq(s, (IF crlf THEN i + 2 ELSE i + 1), Len(s))
              IN  <<SubSeq(s, 1, i - 1)>> \o SplitLines(rest)

LowerChar(c) ==
    CASE c = "P" -> "p" [] c = "I" -> "i" [] c = "A" -> "a" [] c = "D" -> "d"
      [] OTHER -> c

\* str.lower(), on the letters the inputs use
Lower(s) == [i \in 1..Len(s) |-> LowerChar(s[i])]

-----------------------------------------------------------------------------
(* QuantumEntity *)

InitialEnergy == 100
InteractCost == 10

\* f"Entidade_{self.id[:6]}"
FallbackName(id) == <<"Entidade_", id>>

\* QuantumEntity.__init__
NewEntity(id, name, code) ==
    [id |-> id,
     name |-> IF Strip(name) # <<>> THEN Strip(name) ELSE FallbackName(id),
     code |-> code,
     energy_level |-> InitialEnergy,
     status |-> "Ativa",
     visualization |-> None]

\* a variant of StatusAfter: "<" for "<=" on line 132
StatusAfterStrict(status, energy) == IF energy < 0 THEN "Adormecida" ELSE status

\* the status interact() leaves, given the old status and the new energy
StatusAfter(status, energy) == IF energy <= 0 THEN "Adormecida" ELSE status

\* a variant of EnergyAfter: the max(0, ...) of line 131 forgotten
EnergyAfterNoFloor(energy) == energy - InteractCost

\* the energy interact() leaves
EnergyAfter(energy) == Max(0, energy - InteractCost)

\* QuantumEntity.interact: the entity it leaves
Interact(e) ==
    LET en == EnergyAfter(e.energy_level) IN
    [e EXCEPT !.energy_level = en, !.status = StatusAfter(e.status, en)]

\* QuantumEntity.interact: the message it returns
InteractMessage(e) == <<"Interagiu com", e.name, Interact(e).energy_level>>

PltShow == <<"p", "l", "t", ".", "s", "h", "o", "w", "(", ")">>
StDot == <<"s", "t", ".">>
CodeKeywords == {<<"d", "e", "f", " ">>, <<"c", "l", "a", "s", "s", " ">>,
                 <<"i", "m", "p", "o", "r", "t", " ">>}

\* QuantumEntity.generate_visualization
GenerateVisualization(e) ==
    [e EXCEPT !.visualization =
        IF Contains(e.code, PltShow) THEN Some("matplotlib")
        ELSE IF Contains(e.code, StDot) THEN Some("streamlit")
        ELSE IF \E kw \in CodeKeywords : Contains(e.code, kw) THEN Some("codigo")
        ELSE Some("texto")]

-----------------------------------------------------------------------------
(* RerunManager *)

\* RerunManager.__init__
NewRerunManager ==
    [pending_rerun |-> FALSE, rerun_reason |-> None,
     pre_rerun_callbacks |-> <<>>, post_rerun_callbacks |-> <<>>]

\* a variant of RequestRerun: a request that is already pending keeps its reason
RequestRerunFirstWins(m, reason) ==
    IF m.pending_rerun THEN m
    ELSE [m EXCEPT !.pending_rerun = TRUE, !.rerun_reason = reason]

\* RerunManager.request_rerun
RequestRerun(m, reason) ==
    [m EXCEPT !.pending_rerun = TRUE, !.rerun_reason = reason]

\* RerunManager.is_rerun_pending
IsRerunPending(m) == m.pending_rerun

\* RerunManager.add_pre_rerun_callback
AddPreRerunCallback(m, cb) ==
    [m EXCEPT !.pre_rerun_callbacks = Append(@, cb)]

\* RerunManager.add_post_rerun_callback
AddPostRerunCallback(m, cb) ==
    [m EXCEPT !.post_rerun_callbacks = Append(@, cb)]

\* The callbacks a client registers.  "a" and "b" only run; "rq" calls
\* request_rerun("cb") on the manager that runs it.
Callbacks == {"a", "b", "rq"}

\* what calling cb does to the manager
CallbackEffect(m, cb) == IF cb = "rq" THEN RequestRerun(m, Some("cb")) ELSE m

\* for callback in cbs: callback() -- st is [m, log]
RECURSIVE RunCallbacks(_, _, _)
RunCallbacks(st, cbs, phase) ==
    IF cbs = <<>> THEN st
    ELSE RunCallbacks(
            [m |-> CallbackEffect(st.m, Head(cbs)),
             log |-> Append(st.log, [call |-> phase, cb |-> Head(cbs),
                                     pending |-> st.m.pending_rerun,
                                     reason |-> st.m.rerun_reason])],
            Tail(cbs), phase)

\* a variant of ResetPending: line 799 forgotten, the reason stays
ResetPendingKeepsReason(m) == [m EXCEPT !.pending_rerun = FALSE]

\* lines 797-799: the state is reset before the rerun
ResetPending(m) == [m EXCEPT !.pending_rerun = FALSE, !.rerun_reason = None]

\* line 802, st.rerun(): the log entry records the manager as the renderer finds it
SignalRerun(st) ==
    [st EXCEPT !.log = Append(@, [call |-> "st.rerun", cb |-> "",
                                  pending |-> st.m.pending_rerun,
                                  reason |-> st.m.rerun_reason])]

\* a variant of AfterRerun: the post callbacks run in a finally clause
AfterRerunAlways(st, returns) == RunCallbacks(st, st.m.post_rerun_callbacks, "post")

\* lines 805-806, reached only when st.rerun() returns
AfterRerun(st, returns) ==
    IF returns THEN RunCallbacks(st, st.m.post_rerun_callbacks, "post") ELSE st

\* a variant of ExecutePendingRerun: the test of line 791 forgotten
ExecuteUnguarded(m, returns) ==
    LET pre == RunCallbacks([m |-> m, log |-> <<>>], m.pre_rerun_callbacks, "pre")
        reset == [pre EXCEPT !.m = ResetPending(pre.m)]
    IN  AfterRerun(SignalRerun(reset), returns)

\* RerunManager.execute_pending_rerun: [m, log], log being the calls it made
ExecutePendingRerun(m, returns) ==
    IF m.pending_rerun
    THEN LET pre == RunCallbacks([m |-> m, log |-> <<>>], m.pre_rerun_callbacks, "pre")
             reset == [pre EXCEPT !.m = ResetPending(pre.m)]
         IN  AfterRerun(SignalRerun(reset), returns)
    ELSE [m |-> m, log |-> <<>>]

\* the st.rerun() calls in a log
Redraws(log) == Cardinality({i \in 1..Len(log) : log[i].call = "st.rerun"})

-----------------------------------------------------------------------------
(* st.session_state *)

\* init_session_state's defaults.  Messages and texts are sequences, "" is <<>>.
\* the keys of ai_services (lines 498-504) and of ia_connections (lines 181-187)
AiKeys == {"openai", "bard", "claude", "deepseek", "gemini"}

Defaults ==
    [entities |-> EmptyDict,
     user |-> None,
     show_help |-> FALSE,
     last_interaction |-> None,
     ia_connections |-> [k \in AiKeys |-> FALSE],
     chat_history |-> <<>>,
     current_ai |-> None,
     prompt_template |-> <<>>,
     show_tutorial |-> TRUE,
     code_output |-> <<>>,
     tutorial_step |-> 1]

\* a variant of InitSessionState: the "not in" tests left out, every field of
\* the defaults is assigned on every pass
InitSessionStateAlways(s) ==
    [k \in DOMAIN s \cup DOMAIN Defaults |-> IF k \in DOMAIN Defaults THEN Defaults[k] ELSE s[k]]

\* ALMA_System.init_session_state: a key already there keeps its value
InitSessionState(s) ==
    [k \in DOMAIN s \cup DOMAIN Defaults |-> IF k \in DOMAIN s THEN s[k] ELSE Defaults[k]]

RerunReason == Some("Motivo do rerun")

\* what a handler leaves: the session state, the manager, the removal queue
Result(s, m, q) == [ss |-> s, rm |-> m, queue |-> q]

-----------------------------------------------------------------------------
(* The user's inputs *)

\* the widget event delivered in a pass, with the widget's inputs
Ev(w, id, name, code, arg) == [w |-> w, id |-> id, name |-> name, code |-> code, arg |-> arg]
NoEvent == Ev("", 0, <<>>, <<>>, "")

\* One session is explored per group of widgets: the registration form and the
\* tutorial switch, which lead to the main interface, are in every group.
WidgetGroups ==
    { {"register", "toggle_tutorial", "reset", "create", "interact", "remove"},
      {"register", "toggle_tutorial", "help", "tutorial_prev", "tutorial_next"},
      {"register", "toggle_tutorial", "ai", "send", "clear", "joke", "use_prompt"},
      {"register", "toggle_tutorial", "help", "run", "stop", "save", "create", "remove"} }

\* text typed as a name: "", " ", " A"
NameInputs == { <<>>, <<" ">>, <<" ", "A">> }
\* the slider of the registration form (1..100, 50 when untouched)
QuantumLevels == {50}

\* code typed into the entity form: "", "x" newline "ID:1", "ID:1" newline "x"
CreatorCodes ==
    { <<>>,
      <<"x", "\n", "I", "D", ":", "1">>,
      <<"I", "D", ":", "1", "\n", "x">> }

\* code typed into the code runner: "ID:1", "st."
RunnerCodes == { <<"I", "D", ":", "1">>, <<"s", "t", ".">> }

-----------------------------------------------------------------------------
(* ALMA_System: the handlers, as functions of what they read *)

\* setup_sidebar, "Guia Rapido" (lines 216-217)
SidebarHelp(s, m, q) == Result([s EXCEPT !.show_help = ~@], m, q)

\* setup_sidebar, "Reiniciar Matrix" (lines 220-223)
SidebarReset(s, m, q) ==
    Result([s EXCEPT !.entities = EmptyDict, !.last_interaction = <<"reiniciada">>],
           RequestRerun(m, RerunReason), q)

\* setup_sidebar, "Mostrar/Ocultar Tutorial" (lines 226-228)
SidebarTutorial(s, m, q) ==
    Result([s EXCEPT !.show_tutorial = ~@], RequestRerun(m, RerunReason), q)

\* show_registration, the form submitted (lines 316-328)
RegistrationSubmit(s, m, q, name, level) ==
    IF Strip(name) = <<>>
    THEN Result(s, m, q)
    ELSE Result([s EXCEPT !.user = Some([name |-> Strip(name), level |-> level])],
                RequestRerun(m, RerunReason), q)

\* len(steps) in show_interactive_tutorial
NumSteps == 5

\* show_interactive_tutorial, "Passo Anterior" (lines 286-289)
TutorialPrev(s, m, q) ==
    Result([s EXCEPT !.tutorial_step = @ - 1], RequestRerun(m, RerunReason), q)

\* a variant of TutorialNext: the last step goes back to the first
TutorialNextRestarts(s, m, q) ==
    Result(IF s.tutorial_step < NumSteps
           THEN [s EXCEPT !.tutorial_step = @ + 1]
           ELSE [s EXCEPT !.show_tutorial = FALSE, !.tutorial_step = 1],
           RequestRerun(m, RerunReason), q)

\* show_interactive_tutorial, "Proximo" (lines 290-295)
TutorialNext(s, m, q) ==
    Result(IF s.tutorial_step < NumSteps
           THEN [s EXCEPT !.tutorial_step = @ + 1]
           ELSE [s EXCEPT !.show_tutorial = FALSE],
           RequestRerun(m, RerunReason), q)

IdMarker == <<"I", "D", ":">>

\* a variant of HasIdLine: only the first line is looked at
HasIdLineFirstOnly(code) == code # <<>> /\ StartsWith(code, IdMarker)

\* line 391: code and any(line.startswith("ID:") for line in code.splitlines())
HasIdLine(code) ==
    /\ code # <<>>
    /\ \E i \in 1..Len(SplitLines(code)) : StartsWith(SplitLines(code)[i], IdMarker)

\* show_entity_creator: the submit passes both checks (lines 386-393)
CreatorAccepts(name, code) == Strip(name) # <<>> /\ ~HasIdLine(code)

\* lines 395-399 and 695-699: the new entity is classified, stored, announced
StoreEntity(s, m, q, e, kind) ==
    Result([s EXCEPT !.entities = Put(@, e.id, GenerateVisualization(e)),
                     !.last_interaction = <<kind, e.name>>],
           RequestRerun(m, RerunReason), q)

\* show_entity_creator, the form submitted (lines 385-399)
CreatorSubmit(s, m, q, id, name, code) ==
    IF CreatorAccepts(name, code)
    THEN StoreEntity(s, m, q, NewEntity(id, name, code), "criada")
    ELSE Result(s, m, q)

\* a variant of ProcessPendingOperations: pop(eid) without its default raises
\* KeyError on an id that is not there, and the loop is left
RECURSIVE ProcessPendingOperationsStrict(_, _)
ProcessPendingOperationsStrict(entities, q) ==
    IF q = <<>> \/ Head(q) \notin DOMAIN entities THEN entities
    ELSE ProcessPendingOperationsStrict(Pop(entities, Head(q)), Tail(q))

\* process_pending_operations: each queued pop(eid, None), in order
RECURSIVE ProcessPendingOperations(_, _)
ProcessPendingOperations(entities, q) ==
    IF q = <<>> THEN entities
    ELSE ProcessPendingOperations(Pop(entities, Head(q)), Tail(q))

\* process_pending_operations: the queue it leaves, pop(0) while not empty
RECURSIVE RemainingOperations(_)
RemainingOperations(q) == IF q = <<>> THEN q ELSE RemainingOperations(Tail(q))

\* show_entity_list, "Interagir" on entity id (lines 427-430)
ListInteract(s, m, q, id) ==
    Result([s EXCEPT !.entities[id] = Interact(@),
                     !.last_interaction = InteractMessage(s.entities[id])],
           RequestRerun(m, Some("Interacao com entidade")), q)

\* a variant of ListRemove: the handler pops the entity itself
ListRemoveImmediate(s, m, q, id) ==
    Result([s EXCEPT !.entities = Pop(@, id),
                     !.last_interaction = <<"removida", s.entities[id].name>>],
           RequestRerun(m, Some("Remocao de entidade")), q)

\* show_entity_list, "Remover" on entity id (lines 432-438)
ListRemove(s, m, q, id) ==
    Result([s EXCEPT !.last_interaction = <<"removida", s.entities[id].name>>],
           RequestRerun(m, Some("Remocao de entidade")),
           Append(q, id))

-----------------------------------------------------------------------------
(* ALMA_System: chat, prompt library, code runner *)

LibraryAis == {"Deepseek", "Gemini", "Claude"}

\* str.capitalize() on the service keys and labels
Capitalize(x) ==
    CASE x \in {"openai", "Openai"} -> "Openai"
      [] x \in {"bard", "Bard"} -> "Bard"
      [] x \in {"claude", "Claude"} -> "Claude"
      [] x \in {"deepseek", "Deepseek"} -> "Deepseek"
      [] x \in {"gemini", "Gemini"} -> "Gemini"

\* str.lower() on the labels
LowerLabel(x) ==
    CASE x = "Openai" -> "openai"
      [] x = "Bard" -> "bard"
      [] x = "Claude" -> "claude"
      [] x = "Deepseek" -> "deepseek"
      [] x = "Gemini" -> "gemini"

\* len(joke_responses)
NumJokes == 3

Piada == <<"p", "i", "a", "d", "a">>
\* "Conte-me uma piada sobre fisica quantica", shortened to "uma piada"
JokeTemplate == <<"u", "m", "a", " ", "p", "i", "a", "d", "a">>
\* the library's prompts, shortened: one that asks for a joke, one that does not
LibraryPrompts == { <<"P", "i", "a", "d", "a", "?">>, <<"p", "o", "e", "m", "a">> }
\* text typed into the chat form: "", " ", " oi", "Piada"
ChatPrompts == { <<>>, <<" ">>, <<" ", "o", "i">>, <<"P", "i", "a", "d", "a">> }

\* show_ai_chat_panel, the button of one service (lines 507-512)
SelectAi(s, m, q, key) ==
    Result([s EXCEPT !.ia_connections = [k \in DOMAIN @ |-> k = key],
                     !.current_ai = Some(Capitalize(key)), !.prompt_template = <<>>],
           RequestRerun(m, RerunReason), q)

\* process_ai_response, lines 571-612: the text of the answer
AiResponse(s, prompt, joke, provider) ==
    IF Contains(Lower(prompt), Piada) THEN <<"piada", joke>>
    ELSE LET service == LowerLabel(s.current_ai[1]) IN
         IF service = "openai"
         THEN IF provider = "ok" THEN <<"openai", prompt>>
              ELSE <<"Falha na conexao", s.current_ai[1], joke>>
         ELSE IF service = "claude" THEN <<"Resposta da Claude", prompt>>
         ELSE IF service = "gemini" THEN <<"Resposta do Gemini", prompt>>
         ELSE <<"responde", s.current_ai[1], prompt>>

\* a variant of ProcessAiResponse: no try/except around the provider call, whose
\* error leaves the function after the user's record
ProcessAiResponseUncaught(s, m, q, prompt, joke, provider) ==
    LET asked == Append(s.chat_history,
                        [ai |-> s.current_ai, role |-> "user", content |-> prompt])
        answered == Append(asked,
                        [ai |-> s.current_ai, role |-> "ai",
                         content |-> AiResponse(s, prompt, joke, provider)])
    IN  IF AiResponse(s, prompt, joke, provider)[1] = "Falha na conexao"
        THEN Result([s EXCEPT !.chat_history = asked], m, q)
        ELSE Result([s EXCEPT !.chat_history = answered],
                    RequestRerun(m, Some("Atualizacao do chat")), q)

\* process_ai_response
ProcessAiResponse(s, m, q, prompt, joke, provider) ==
    LET asked == Append(s.chat_history,
                        [ai |-> s.current_ai, role |-> "user", content |-> prompt])
        answered == Append(asked,
                        [ai |-> s.current_ai, role |-> "ai",
                         content |-> AiResponse(s, prompt, joke, provider)])
    IN  Result([s EXCEPT !.chat_history = answered],
               RequestRerun(m, Some("Atualizacao do chat")), q)

\* show_ai_chat_panel, "Enviar Mensagem" (lines 544-545)
ChatSend(s, m, q, prompt, joke, provider) ==
    IF Strip(prompt) # <<>>
    THEN ProcessAiResponse(s, m, q, Strip(prompt), joke, provider)
    ELSE Result(s, m, q)

\* show_ai_chat_panel, "Limpar" (lines 546-548)
ChatClear(s, m, q) ==
    Result([s EXCEPT !.prompt_template = <<>>], RequestRerun(m, RerunReason), q)

\* show_ai_chat_panel, "Piada Quantica" (lines 549-551)
ChatJoke(s, m, q) ==
    Result([s EXCEPT !.prompt_template = JokeTemplate], RequestRerun(m, RerunReason), q)

\* show_prompt_library, "Usar este prompt" (lines 656-660)
UsePrompt(s, m, q, prompt, ai) ==
    Result([s EXCEPT !.prompt_template = prompt, !.current_ai = Some(Capitalize(ai))],
           RequestRerun(m, Some("Prompt selecionado da biblioteca")), q)

\* randint(8502, 9000): both ends
Ports == {8502, 9000}
\* run_code: the launch succeeds, Popen raises, or webbrowser.open raises after it
RunOutcomes == {"ok", "popen_raises", "browser_raises"}
\* whether run_code has started a subprocess
Launches(outcome) == outcome # "popen_raises"

\* run_code (lines 711-753), proc being the Popen object
RunCode(s, m, q, proc, port, outcome) ==
    Result(IF outcome = "popen_raises" THEN [s EXCEPT !.code_output = <<"Erro">>]
           ELSE Put([s EXCEPT !.code_output =
                        IF outcome = "ok" THEN <<"executado na porta", port>>
                        ELSE <<"Erro">>],
                    "code_process", proc),
           RequestRerun(m, Some("Execucao em nova porta")), q)

\* f"App_{uuid.uuid4().hex[:4]}", the hex digits left out
AppName == <<"A", "p", "p", "_">>

\* show_code_runner, "Salvar como Entidade" (lines 694-699)
SaveAsEntity(s, m, q, id, code) ==
    StoreEntity(s, m, q, NewEntity(id, AppName, code), "salvo")

\* line 705: st.session_state.get('code_process'), a Popen object when there
HasProcess(s) == "code_process" \in DOMAIN s

\* show_code_runner, "Parar Execucao" (lines 706-709)
RunnerStop(s, m, q) ==
    Result(Del([s EXCEPT !.code_output = <<"interrompida">>], "code_process"), m, q)

-----------------------------------------------------------------------------
(* One pass of the script: ALMA_System.__init__, a step per call *)

\* no widget of this step was pressed
Quiet == UNCHANGED <<ss, rm, click, event>>

\* widget w of this step was pressed: its handler leaves r
Handle(w, e, r) ==
    /\ click = "pending"
    /\ w \in operated
    /\ click' = "taken"
    /\ event' = e
    /\ ss' = r.ss
    /\ rm' = r.rm

\* interactCalls for the registry `entities`, after interact() on entity `touched`
Calls(entities, touched) ==
    [id \in DOMAIN entities |->
        IF id \notin DOMAIN interactCalls THEN 0
        ELSE IF id = touched /\ interactCalls[id] < MaxCount THEN interactCalls[id] + 1
        ELSE interactCalls[id]]

Registered(s) == s.user # None

\* lines 150-153: a new ALMA_System (nothing of the previous instance is left),
\* its RerunManager, init_session_state.  The first load and a rerun deliver no
\* widget event.
StartPass ==
    /\ pc = "idle"
    /\ rm' = NewRerunManager
    /\ pending_operations' = <<>>
    /\ ss' = InitSessionState(ss)
    /\ click' = IF rerun \/ DOMAIN ss = {} THEN "none" ELSE "pending"
    /\ event' = IF rerun THEN event ELSE NoEvent
    /\ rerun' = FALSE
    /\ flushLog' = <<>>
    /\ pc' = "sidebar"
    /\ UNCHANGED <<rerunReturns, last, nextId, interactCalls, procs, nextProc, operated>>

\* lines 155-156: setup_sidebar, then self.pending_operations = []
SetupSidebar ==
    /\ pc = "sidebar"
    /\ \/ Quiet
       \/ Handle("help", Ev("help", 0, <<>>, <<>>, ""),
                 SidebarHelp(ss, rm, pending_operations))
       \/ Handle("reset", Ev("reset", 0, <<>>, <<>>, ""),
                 SidebarReset(ss, rm, pending_operations))
       \/ Handle("toggle_tutorial", Ev("toggle_tutorial", 0, <<>>, <<>>, ""),
                 SidebarTutorial(ss, rm, pending_operations))
    /\ pending_operations' = <<>>
    /\ interactCalls' = Calls(ss'.entities, 0)
    /\ pc' = "flow"
    /\ UNCHANGED <<rerun, flushLog, rerunReturns, last, nextId, procs, nextProc, operated>>

\* a variant of ShowRegistration: line 328 calls st.rerun() itself
ShowRegistrationReruns ==
    /\ pc = "flow"
    /\ ~Registered(ss)
    /\ \/ /\ Quiet
          /\ pc' = "check"
          /\ UNCHANGED <<rerun, flushLog>>
       \/ \E name \in NameInputs, level \in QuantumLevels :
            /\ Handle("register", Ev("register", level, name, <<>>, ""),
                      RegistrationSubmit(ss, rm, pending_operations, name, level))
            /\ flushLog' = SignalRerun([m |-> rm, log |-> flushLog]).log
            /\ rerun' = TRUE
            /\ pc' = "idle"
    /\ UNCHANGED <<pending_operations, rerunReturns, last, nextId,
                   interactCalls, procs, nextProc, operated>>

\* lines 159-160: show_registration
ShowRegistration ==
    /\ pc = "flow"
    /\ ~Registered(ss)
    /\ \/ Quiet
       \/ \E name \in NameInputs, level \in QuantumLevels :
            Handle("register", Ev("register", level, name, <<>>, ""),
                   RegistrationSubmit(ss, rm, pending_operations, name, level))
    /\ pc' = "check"
    /\ UNCHANGED <<pending_operations, rerun, flushLog, rerunReturns, last, nextId,
                   interactCalls, procs, nextProc, operated>>

\* lines 162-163: show_interactive_tutorial
ShowInteractiveTutorial ==
    /\ pc = "flow"
    /\ Registered(ss)
    /\ ss.show_tutorial
    /\ \/ Quiet
       \/ /\ ss.tutorial_step \in 1..NumSteps
          /\ ss.tutorial_step > 1
          /\ Handle("tutorial_prev", Ev("tutorial_prev", 0, <<>>, <<>>, ""),
                    TutorialPrev(ss, rm, pending_operations))
       \/ /\ ss.tutorial_step \in 1..NumSteps
          /\ Handle("tutorial_next", Ev("tutorial_next", 0, <<>>, <<>>, ""),
                    TutorialNext(ss, rm, pending_operations))
    /\ pc' = "check"
    /\ UNCHANGED <<pending_operations, rerun, flushLog, rerunReturns, last, nextId,
                   interactCalls, procs, nextProc, operated>>

\* lines 164-165 and 352: show_main_interface up to show_entity_creator.
\* An accepted submit needs an unused id.
ShowEntityCreator ==
    /\ pc = "flow"
    /\ Registered(ss)
    /\ ~ss.show_tutorial
    /\ \/ Quiet /\ UNCHANGED nextId
       \/ \E name \in NameInputs, code \in CreatorCodes :
            /\ CreatorAccepts(name, code) => nextId <= MaxEntities
            /\ Handle("create", Ev("create", nextId, name, code, ""),
                      CreatorSubmit(ss, rm, pending_operations, nextId, name, code))
            /\ nextId' = IF CreatorAccepts(name, code) THEN nextId + 1 ELSE nextId
    /\ interactCalls' = Calls(ss'.entities, 0)
    /\ pc' = "list"
    /\ UNCHANGED <<pending_operations, rerun, flushLog, rerunReturns, last,
                   procs, nextProc, operated>>

\* line 353: show_entity_list.  The queue is drained first (line 405); the
\* buttons are those of the entities the registry then holds.
ShowEntityList ==
    /\ pc = "list"
    /\ LET drained == [ss EXCEPT !.entities =
                            ProcessPendingOperations(@, pending_operations)]
           left == RemainingOperations(pending_operations)
       IN  \/ /\ ss' = drained
              /\ pending_operations' = left
              /\ interactCalls' = Calls(drained.entities, 0)
              /\ UNCHANGED <<rm, click, event>>
           \/ \E id \in DOMAIN drained.entities :
                LET r == ListInteract(drained, rm, left, id) IN
                /\ Handle("interact", Ev("interact", id, <<>>, <<>>, ""), r)
                /\ pending_operations' = r.queue
                /\ interactCalls' = Calls(r.ss.entities, id)
           \/ \E id \in DOMAIN drained.entities :
                LET r == ListRemove(drained, rm, left, id) IN
                /\ Handle("remove", Ev("remove", id, <<>>, <<>>, ""), r)
                /\ pending_operations' = r.queue
                /\ interactCalls' = Calls(r.ss.entities, 0)
    /\ pc' = "universe"
    /\ UNCHANGED <<rerun, flushLog, rerunReturns, last, nextId, procs, nextProc, operated>>

\* line 355: show_quantum_universe reads the registry and draws it
ShowQuantumUniverse ==
    /\ pc = "universe"
    /\ pc' = "chat"
    /\ UNCHANGED <<ss, rm, pending_operations, click, rerun, event, flushLog,
                   rerunReturns, last, nextId, interactCalls, procs, nextProc, operated>>

\* line 358: show_ai_chat_panel.  The form is there once an AI is selected; a
\* message that is sent needs room for its two records.
ShowAiChatPanel ==
    /\ pc = "chat"
    /\ \/ Quiet
       \/ \E key \in AiKeys :
            Handle("ai", Ev("ai", 0, <<>>, <<>>, key),
                   SelectAi(ss, rm, pending_operations, key))
       \/ /\ Truthy(ss.current_ai)
          /\ \E prompt \in ChatPrompts, joke \in 1..NumJokes, provider \in {"ok", "raises"} :
               /\ Strip(prompt) # <<>> => Len(ss.chat_history) + 2 <= MaxChat
               /\ Handle("send", Ev("send", joke, prompt, <<>>, provider),
                         ChatSend(ss, rm, pending_operations, prompt, joke, provider))
       \/ /\ Truthy(ss.current_ai)
          /\ Handle("clear", Ev("clear", 0, <<>>, <<>>, ""),
                    ChatClear(ss, rm, pending_operations))
       \/ /\ Truthy(ss.current_ai)
          /\ Handle("joke", Ev("joke", 0, <<>>, <<>>, ""),
                    ChatJoke(ss, rm, pending_operations))
    /\ pc' = "library"
    /\ UNCHANGED <<pending_operations, rerun, flushLog, rerunReturns, last, nextId,
                   interactCalls, procs, nextProc, operated>>

\* line 361: show_prompt_library
ShowPromptLibrary ==
    /\ pc = "library"
    /\ \/ Quiet
       \/ \E prompt \in LibraryPrompts, ai \in LibraryAis :
            Handle("use_prompt", Ev("use_prompt", 0, prompt, <<>>, ai),
                   UsePrompt(ss, rm, pending_operations, prompt, ai))
    /\ pc' = "runner"
    /\ UNCHANGED <<pending_operations, rerun, flushLog, rerunReturns, last, nextId,
                   interactCalls, procs, nextProc, operated>>

\* line 364: show_code_runner.  A launch needs an unused process, a saved
\* entity an unused id.
ShowCodeRunner ==
    /\ pc = "runner"
    /\ \/ Quiet /\ UNCHANGED <<nextId, procs, nextProc>>
       \/ \E code \in RunnerCodes, port \in Ports, outcome \in RunOutcomes :
            /\ Launches(outcome) => nextProc <= MaxProcs
            /\ Handle("run", Ev("run", port, <<>>, code, outcome),
                      RunCode(ss, rm, pending_operations, nextProc, port, outcome))
            /\ procs' = IF Launches(outcome) THEN procs \cup {nextProc} ELSE procs
            /\ nextProc' = IF Launches(outcome) THEN nextProc + 1 ELSE nextProc
            /\ UNCHANGED nextId
       \/ \E code \in RunnerCodes :
            /\ nextId <= MaxEntities
            /\ Handle("save", Ev("save", nextId, <<>>, code, ""),
                      SaveAsEntity(ss, rm, pending_operations, nextId, code))
            /\ nextId' = nextId + 1
            /\ UNCHANGED <<procs, nextProc>>
       \/ /\ HasProcess(ss)
          /\ Handle("stop", Ev("stop", 0, <<>>, <<>>, ""),
                    RunnerStop(ss, rm, pending_operations))
          /\ procs' = procs \ {ss.code_process}
          /\ UNCHANGED <<nextId, nextProc>>
    /\ interactCalls' = Calls(ss'.entities, 0)
    /\ pc' = "check"
    /\ UNCHANGED <<pending_operations, rerun, flushLog, rerunReturns, last, operated>>

\* lines 167-168: the rerun is executed if one is pending; the pass ends.
\* When st.rerun() raises, Streamlit runs the script again.
CheckRerun ==
    /\ pc = "check"
    /\ LET r == IF IsRerunPending(rm) THEN ExecutePendingRerun(rm, rerunReturns)
                ELSE [m |-> rm, log |-> <<>>]
       IN  /\ rm' = r.m
           /\ flushLog' = r.log
           /\ rerun' = (Redraws(r.log) > 0)
           /\ event' = IF Redraws(r.log) > 0 THEN event ELSE NoEvent
    /\ click' = "none"
    /\ pc' = "idle"
    /\ UNCHANGED <<ss, pending_operations, rerunReturns, last, nextId, interactCalls,
                   procs, nextProc, operated>>

NoCall == [op |-> "", arg |-> None, before |-> NewRerunManager]

Init ==
    /\ ss = EmptyDict
    /\ rm = NewRerunManager
    /\ pending_operations = <<>>
    /\ pc = "idle"
    /\ click = "none"
    /\ rerun = FALSE
    /\ event = NoEvent
    /\ flushLog = <<>>
    /\ rerunReturns = FALSE
    /\ last = NoCall
    /\ nextId = 1
    /\ interactCalls = EmptyDict
    /\ procs = {}
    /\ nextProc = 1
    /\ operated \in WidgetGroups

Next ==
    \/ StartPass
    \/ SetupSidebar
    \/ ShowRegistration
    \/ ShowInteractiveTutorial
    \/ ShowEntityCreator
    \/ ShowEntityList
    \/ ShowQuantumUniverse
    \/ ShowAiChatPanel
    \/ ShowPromptLibrary
    \/ ShowCodeRunner
    \/ CheckRerun

Spec == Init /\ [][Next]_vars

-----------------------------------------------------------------------------
(* A RerunManager on its own, driven by a client that calls its methods in  *)
(* any order.  st.rerun() either returns (no script runner: bare mode) or   *)
(* raises for the whole run; when it raises, the client goes on after it.   *)

Reasons == {None, Some("r1"), Some("r2")}

Call(op, arg) == [op |-> op, arg |-> arg, before |-> rm]

AppUnchanged ==
    UNCHANGED <<ss, pending_operations, pc, click, rerun, event, rerunReturns,
                nextId, interactCalls, procs, nextProc, operated>>

ClientRequestRerun ==
    /\ pc = "client"
    /\ \E reason \in Reasons :
        /\ rm' = RequestRerun(rm, reason)
        /\ last' = Call("request_rerun", reason)
    /\ flushLog' = <<>>
    /\ AppUnchanged

ClientIsRerunPending ==
    /\ pc = "client"
    /\ last' = Call("is_rerun_pending", Some(IsRerunPending(rm)))
    /\ flushLog' = <<>>
    /\ UNCHANGED rm
    /\ AppUnchanged

ClientAddPreRerunCallback ==
    /\ pc = "client"
    /\ Len(rm.pre_rerun_callbacks) < MaxCallbacks
    /\ \E cb \in Callbacks :
        /\ rm' = AddPreRerunCallback(rm, cb)
        /\ last' = Call("add_pre_rerun_callback", Some(cb))
    /\ flushLog' = <<>>
    /\ AppUnchanged

ClientAddPostRerunCallback ==
    /\ pc = "client"
    /\ Len(rm.post_rerun_callbacks) < MaxCallbacks
    /\ \E cb \in Callbacks :
        /\ rm' = AddPostRerunCallback(rm, cb)
        /\ last' = Call("add_post_rerun_callback", Some(cb))
    /\ flushLog' = <<>>
    /\ AppUnchanged

ClientExecutePendingRerun ==
    /\ pc = "client"
    /\ LET r == ExecutePendingRerun(rm, rerunReturns) IN
        /\ rm' = r.m
        /\ flushLog' = r.log
    /\ last' = Call("execute_pending_rerun", None)
    /\ AppUnchanged

InitRM ==
    /\ ss = EmptyDict
    /\ rm = NewRerunManager
    /\ pending_operations = <<>>
    /\ pc = "client"
    /\ click = "none"
    /\ rerun = FALSE
    /\ event = NoEvent
    /\ flushLog = <<>>
    /\ rerunReturns \in BOOLEAN
    /\ last = NoCall
    /\ nextId = 1
    /\ interactCalls = EmptyDict
    /\ procs = {}
    /\ nextProc = 1
    /\ operated = {}

NextRM ==
    \/ ClientRequestRerun
    \/ ClientIsRerunPending
    \/ ClientAddPreRerunCallback
    \/ ClientAddPostRerunCallback
    \/ ClientExecutePendingRerun

SpecRM == InitRM /\ [][NextRM]_vars

-----------------------------------------------------------------------------
(* process_pending_operations on its own: beside the passes of the script,  *)
(* the drain is applied to a registry and a queue of removals given to it,  *)
(* the queue holding any ids in any order, repeated and unknown ids too.    *)

\* the registries of entities 1..MaxEntities
Registries ==
    { [id \in S |-> GenerateVisualization(NewEntity(id, <<"A">>, <<>>))] :
        S \in SUBSET (1..MaxEntities) }

\* the queues of removals: ids of entities, and MaxEntities + 1 that none has
Queues == UNION { [1..n -> 1..(MaxEntities + 1)] : n \in 0..MaxQueue }

DrainQueue ==
    /\ pc = "drain"
    /\ ss' = [ss EXCEPT !.entities = ProcessPendingOperations(@, pending_operations)]
    /\ pending_operations' = RemainingOperations(pending_operations)
    /\ last' = [op |-> "process_pending_operations", arg |-> pending_operations,
                before |-> ss.entities]
    /\ pc' = "drained"
    /\ UNCHANGED <<rm, click, rerun, event, flushLog, rerunReturns, nextId,
                   interactCalls, procs, nextProc, operated>>

InitDrain ==
    /\ \E entities \in Registries : ss = [Defaults EXCEPT !.entities = entities]
    /\ rm = NewRerunManager
    /\ pending_operations \in Queues
    /\ pc = "drain"
    /\ click = "none"
    /\ rerun = FALSE
    /\ event = NoEvent
    /\ flushLog = <<>>
    /\ rerunReturns = FALSE
    /\ last = NoCall
    /\ nextId = 1
    /\ interactCalls = EmptyDict
    /\ procs = {}
    /\ nextProc = 1
    /\ operated = {}

SpecDrain == (Init \/ InitDrain) /\ [][Next \/ DrainQueue]_vars

-----------------------------------------------------------------------------
(* The claims *)

HandlerPcs == {"sidebar", "flow", "list", "universe", "chat", "library", "runner"}

\* C1 (as claimed): in the rerun pass that follows a remove action on an entity
\* of the registry, the entity is gone once show_entity_list has run.
C1_RemovalAppliedAtNextListing ==
    (pc = "universe" /\ click = "none" /\ event.w = "remove")
        => event.id \notin DOMAIN ss.entities

\* names that are empty after trimming, codes with a line beginning with "ID:"
C2_BlankNames == { <<>>, <<" ">> }
C2_MarkedCodes == { <<"x", "\n", "I", "D", ":", "1">>, <<"I", "D", ":", "1", "\n", "x">> }
C2_Invalid(e) == e.w = "create" /\ (e.name \in C2_BlankNames \/ e.code \in C2_MarkedCodes)

\* C2: a create submit with a blank name or with code holding a line that
\* begins with "ID:" leaves session state (registry, last_interaction and all
\* else) and the manager as they were, and no rerun is pending or raised in the
\* rest of the pass.
C2_RejectedSubmitChangesNothing ==
    /\ [][(pc = "flow" /\ click = "pending" /\ C2_Invalid(event'))
            => (ss' = ss /\ rm' = rm /\ nextId' = nextId)]_vars
    /\ []((click = "taken" /\ C2_Invalid(event)) => (~rm.pending_rerun /\ ~rerun))

C2_Witness ==
    /\ pc = "check"
    /\ click = "taken"
    /\ event.w = "create"
    /\ event.name = <<" ", "A">>
    /\ event.code = <<"x", "\n", "I", "D", ":", "1">>
    /\ DOMAIN ss.entities # {}

Registry == IF "entities" \in DOMAIN ss THEN ss.entities ELSE EmptyDict

\* C3: every entity of the registry is "Adormecida" exactly when its energy is
\* 0, and an entity that is "Adormecida" stays so.
C3_DormantIffNoEnergy ==
    /\ [](\A id \in DOMAIN Registry :
            (Registry[id].status = "Adormecida") <=> (Registry[id].energy_level = 0))
    /\ [][\A id \in DOMAIN Registry \cap DOMAIN Registry' :
            Registry[id].status = "Adormecida" => Registry'[id].status = "Adormecida"]_vars

C3_Witness ==
    \E id \in DOMAIN Registry :
        Registry[id].status = "Adormecida" /\ Registry[id].energy_level = 0

\* the step is interact() on entity id
C4_InteractOn(id) ==
    click = "pending" /\ click' = "taken" /\ event'.w = "interact" /\ event'.id = id

\* C4: energy stays in 0..100 and never rises; after k interact() calls it is
\* 100 - 10k, and 0 from the tenth call on; a call at 0 changes nothing of
\* the entity.
C4_EnergyFalls ==
    /\ [](\A id \in DOMAIN Registry :
            /\ Registry[id].energy_level \in 0..100
            /\ interactCalls[id] < 10 =>
                    Registry[id].energy_level = 100 - 10 * interactCalls[id]
            /\ interactCalls[id] >= 10 => Registry[id].energy_level = 0)
    /\ [][\A id \in DOMAIN Registry \cap DOMAIN Registry' :
            /\ Registry'[id].energy_level <= Registry[id].energy_level
            /\ C4_InteractOn(id) =>
                    IF Registry[id].energy_level = 0
                    THEN Registry'[id] = Registry[id]
                    ELSE Registry'[id].energy_level = Registry[id].energy_level - 10]_vars

C4_Witness ==
    \E id \in DOMAIN Registry :
        /\ interactCalls[id] = 11
        /\ Registry[id].energy_level = 0
        /\ event.w = "interact"
        /\ event.id = id

\* the last call was execute_pending_rerun() with a rerun pending
C5_Flushed == last.op = "execute_pending_rerun" /\ last.before.pending_rerun

\* C5: execute_pending_rerun() with a rerun pending calls every pre callback in
\* registration order, then st.rerun(), which finds the manager not pending and
\* its reason None, then (st.rerun() having returned) every post callback in
\* registration order, and nothing else; when st.rerun() raises, nothing follows it.
C5_FlushOrder ==
    C5_Flushed =>
        LET pre == last.before.pre_rerun_callbacks
            post == last.before.post_rerun_callbacks
            n == Len(pre)
        IN  /\ Len(flushLog) = n + 1 + (IF rerunReturns THEN Len(post) ELSE 0)
            /\ \A i \in 1..n : flushLog[i].call = "pre" /\ flushLog[i].cb = pre[i]
            /\ flushLog[n + 1].call = "st.rerun"
            /\ ~flushLog[n + 1].pending
            /\ flushLog[n + 1].reason = None
            /\ rerunReturns =>
                \A j \in 1..Len(post) :
                    flushLog[n + 1 + j].call = "post" /\ flushLog[n + 1 + j].cb = post[j]

C5_Witness ==
    /\ C5_Flushed
    /\ rerunReturns
    /\ last.before.rerun_reason = Some("r1")
    /\ last.before.pre_rerun_callbacks = <<"rq", "a">>
    /\ last.before.post_rerun_callbacks = <<"b", "a">>
    /\ Len(flushLog) = 5

\* C6: request_rerun(r) on a manager whose rerun is already pending leaves it
\* pending with reason r, and nothing else of it changed.
C6_LastReasonWins ==
    (last.op = "request_rerun" /\ last.before.pending_rerun)
        => (rm.pending_rerun /\ rm = [last.before EXCEPT !.rerun_reason = last.arg])

C6_Witness ==
    /\ last.op = "request_rerun"
    /\ last.before.pending_rerun
    /\ last.before.rerun_reason = Some("r1")
    /\ last.arg = Some("r2")
    /\ rm.rerun_reason = Some("r2")

\* C7: execute_pending_rerun() with no rerun pending calls nothing (no
\* callback, no st.rerun()) and leaves the manager as it was.
C7_IdleFlushIsNoOp ==
    (last.op = "execute_pending_rerun" /\ ~last.before.pending_rerun)
        => (flushLog = <<>> /\ rm = last.before /\ ~rm.pending_rerun)

C7_Witness ==
    /\ last.op = "execute_pending_rerun"
    /\ ~last.before.pending_rerun
    /\ Len(rm.pre_rerun_callbacks) > 0
    /\ Len(rm.post_rerun_callbacks) > 0

\* C8: when st.rerun() does not return, no call made by the manager is a post
\* callback.
C8_NoPostCallback ==
    ~rerunReturns => \A i \in 1..Len(flushLog) : flushLog[i].call # "post"

C8_Witness ==
    /\ ~rerunReturns
    /\ C5_Flushed
    /\ Len(last.before.post_rerun_callbacks) > 0
    /\ Redraws(flushLog) = 1

\* C9: while the script is running st.rerun() has not been called, no handler
\* step calls it, and a pass calls it at most once: only the final step of the
\* pass (lines 167-168) does.
C9_RedrawAfterHandlers ==
    /\ [](pc # "idle" => (Redraws(flushLog) = 0 /\ ~rerun))
    /\ [](Redraws(flushLog) <= 1)
    /\ [][(pc \in HandlerPcs) => (flushLog' = flushLog /\ rerun' = rerun)]_vars

C9_Witness ==
    /\ pc = "idle"
    /\ Redraws(flushLog) = 1
    /\ rerun
    /\ event.w = "interact"

\* C10 (as claimed): a handler step that changes session state leaves a rerun
\* requested.
C10_MutationRequestsRerun ==
    [][(pc \in HandlerPcs /\ click = "pending" /\ click' = "taken" /\ ss' # ss)
            => rm'.pending_rerun]_vars

\* the pass is handling a remove action
C11_Removing == click = "taken" /\ event.w = "remove"

\* C11: the step that handles a remove action leaves the registry as it was,
\* and so does every later step of that pass: the entity is in the registry
\* that the rest of the pass (the universe plot included) reads.
C11_RegistryKeptInRemovePass ==
    /\ [][(click = "pending" /\ click' = "taken" /\ event'.w = "remove")
            => Registry' = Registry]_vars
    /\ [][(C11_Removing /\ pc # "idle") => Registry' = Registry]_vars
    /\ [](C11_Removing => event.id \in DOMAIN Registry)

C11_Witness ==
    /\ pc = "chat"
    /\ C11_Removing
    /\ event.id \in DOMAIN Registry
    /\ pending_operations = <<event.id>>

\* q without the repetitions of its ids
RECURSIVE C12_Once(_)
C12_Once(q) ==
    IF q = <<>> THEN q
    ELSE LET front == C12_Once(SubSeq(q, 1, Len(q) - 1)) IN
         IF \E i \in 1..Len(front) : front[i] = q[Len(q)] THEN front
         ELSE Append(front, q[Len(q)])

\* C12: the drain of a queue leaves the registry that the drain of the same
\* queue with each id once leaves, namely the entities whose id is not in the
\* queue; when no id of the queue is in the registry it leaves the registry as
\* it was; it leaves the queue empty.  In the script no queue holds an id twice.
C12_DrainIdempotent ==
    /\ pc = "drained" =>
            LET entities == last.before
                q == last.arg
                ids == { q[i] : i \in 1..Len(q) }
            IN  /\ ss.entities = ProcessPendingOperations(entities, C12_Once(q))
                /\ ss.entities = [id \in DOMAIN entities \ ids |-> entities[id]]
                /\ (ids \cap DOMAIN entities = {}) => ss.entities = entities
                /\ pending_operations = <<>>
    /\ pc \notin {"drain", "drained"} =>
            \A i, j \in 1..Len(pending_operations) :
                pending_operations[i] = pending_operations[j] => i = j

C12_Witness ==
    /\ pc = "drained"
    /\ last.arg = <<1, 2, 1>>
    /\ DOMAIN last.before = {1, 2}
    /\ ss.entities = EmptyDict
    /\ pending_operations = <<>>

\* the step sends a chat message that is not blank
C13_Send ==
    click = "pending" /\ click' = "taken" /\ event'.w = "send" /\ Strip(event'.name) # <<>>

\* the provider is called (OpenAI selected, no joke asked for) and throws
C13_Thrown ==
    /\ event'.arg = "raises"
    /\ ss.current_ai = Some("Openai")
    /\ ~Contains(Lower(Strip(event'.name)), Piada)

\* C13: a chat message that is not blank adds to the transcript the user's
\* record and then one AI record, both with the selected AI, and nothing else;
\* a rerun is requested and the pass goes on to the prompt library, whether the
\* provider answers or throws; when it throws, the AI record is the error
\* banner with the AI's label, followed by one of the jokes.
C13_ChatErrorsStayLocal ==
    [][C13_Send =>
        LET ai == ss.current_ai
            n == Len(ss.chat_history)
            h == ss'.chat_history
        IN  /\ Len(h) = n + 2
            /\ SubSeq(h, 1, n) = ss.chat_history
            /\ h[n + 1] = [ai |-> ai, role |-> "user", content |-> Strip(event'.name)]
            /\ h[n + 2].ai = ai
            /\ h[n + 2].role = "ai"
            /\ ss'.current_ai = ai
            /\ rm'.pending_rerun
            /\ pc' = "library"
            /\ C13_Thrown =>
                    /\ event'.id \in 1..NumJokes
                    /\ h[n + 2].content = <<"Falha na conexao", ai[1], event'.id>>]_vars

C13_Witness ==
    /\ pc = "library"
    /\ click = "taken"
    /\ event.w = "send"
    /\ event.arg = "raises"
    /\ event.name = <<" ", "o", "i">>
    /\ ss.current_ai = Some("Openai")
    /\ Len(ss.chat_history) = 2
    /\ ss.chat_history[1].role = "user"
    /\ ss.chat_history[2].content[1] = "Falha na conexao"
    /\ rm.pending_rerun

\* the step is the start of a pass: a new ALMA_System runs init_session_state
C14_Starts == pc = "idle" /\ pc' = "sidebar"

\* C14: the first pass of a session starts with session state at its defaults;
\* every later pass starts with session state as the pass before left it,
\* every field of it: defaults are not assigned again.
C14_DefaultsOnFirstUseOnly ==
    /\ [][C14_Starts =>
            IF DOMAIN ss = {} THEN ss' = Defaults ELSE ss' = ss]_vars
    /\ [][pc = "check" => ss' = ss]_vars
    /\ [](pc # "idle" => DOMAIN Defaults \subseteq DOMAIN ss)

C14_Witness ==
    /\ pc = "sidebar"
    /\ click = "none"
    /\ event.w = "save"
    /\ Registered(ss)
    /\ ~ss.show_tutorial
    /\ ss.show_help
    /\ DOMAIN ss.entities # {}
    /\ ss.code_output = <<"interrompida">>
    /\ ss.last_interaction # None

\* C15 (as claimed): no entity of the registry has code with a line that begins
\* with "ID:".
C15_NoIdLineInRegistry ==
    \A id \in DOMAIN Registry : ~HasIdLine(Registry[id].code)

\* the subprocess that session state refers to, if any
C16_Referenced == IF HasProcess(ss) THEN {ss.code_process} ELSE {}

\* C16 (as claimed): every subprocess that was launched and not terminated is
\* the one session state refers to, and after a stop session state refers to
\* none.
C16_LaunchedIsReferenced ==
    /\ procs \subseteq C16_Referenced
    /\ (click = "taken" /\ event.w = "stop") => ~HasProcess(ss)

\* the step is a press of widget w
C17_Press(w) == click = "pending" /\ click' = "taken" /\ event'.w = w

\* C17: the tutorial step is one of 1..5.  "Passo Anterior" is pressed only
\* above step 1 and lowers the step by one; "Proximo" below step 5 raises it by
\* one and at step 5 hides the tutorial, the step staying 5; the tutorial
\* switch of the sidebar flips the flag and leaves the step; each of the three
\* requests a rerun, and no other step of the script changes the tutorial step.
C17_TutorialStepInRange ==
    /\ [](pc # "idle" => ss.tutorial_step \in 1..5)
    /\ [][C17_Press("tutorial_prev") =>
            /\ ss.tutorial_step > 1
            /\ ss'.tutorial_step = ss.tutorial_step - 1
            /\ ss'.show_tutorial = ss.show_tutorial
            /\ rm'.pending_rerun]_vars
    /\ [][C17_Press("tutorial_next") =>
            /\ IF ss.tutorial_step < 5
               THEN ss'.tutorial_step = ss.tutorial_step + 1 /\ ss'.show_tutorial
               ELSE ss'.tutorial_step = 5 /\ ~ss'.show_tutorial
            /\ rm'.pending_rerun]_vars
    /\ [][C17_Press("toggle_tutorial") =>
            /\ ss'.tutorial_step = ss.tutorial_step
            /\ ss'.show_tutorial = ~ss.show_tutorial
            /\ rm'.pending_rerun]_vars
    /\ [][(pc \notin {"idle", "client", "drain"} /\ ~C17_Press("tutorial_prev")
                /\ ~C17_Press("tutorial_next"))
            => ss'.tutorial_step = ss.tutorial_step]_vars

C17_Witness ==
    /\ pc = "check"
    /\ click = "taken"
    /\ event.w = "tutorial_next"
    /\ ~ss.show_tutorial
    /\ ss.tutorial_step = 5
    /\ rm.pending_rerun

=============================================================================
